---- MODULE Spec2Model ----
(***************************************************************************)
(* A model of the two import-renaming scripts of jamesainslie/dot:         *)
(*   fix_renderer.py   ("Renamer A"): a fixed list of renderer files, a    *)
(*                     conditional import insertion, two literal           *)
(*                     replacements, an unconditional write;               *)
(*   update_imports.py ("Renamer B"): the .go files under nine package     *)
(*                     directories, an import-path replacement, a gated    *)
(*                     regular-expression rewrite, a write on change.      *)
(* File contents are real character strings; str.replace, the `in` test    *)
(* and re.sub(r'\bdot\.', ...) are computed character by character.        *)
(***************************************************************************)
EXTENDS Integers, Sequences, FiniteSets, TLC

(***************************************************************************)
(* Bounds of the model.                                                    *)
(***************************************************************************)
\* Fragments concatenated into one file content in the single-file runs.
MaxFrags == 3
\* Invocations of a script in the repeated-run specification.
MaxRuns == 2
\* Files that exist in the tree of a Renamer B tree run.
MaxFiles == 3

(***************************************************************************)
(* Python string primitives.                                               *)
(***************************************************************************)
\* s[i] as a one-character string.
CharAt(s, i) == SubSeq(s, i, i)

\* s.startswith(sub, i-1): sub occurs in s at (1-based) position i.
OccursAt(s, sub, i) ==
    /\ i >= 1
    /\ i + Len(sub) - 1 <= Len(s)
    /\ SubSeq(s, i, i + Len(sub) - 1) = sub

\* Python's `sub in s`.
Contains(s, sub) == \E i \in 1..(Len(s) - Len(sub) + 1) : OccursAt(s, sub, i)

\* s.find(sub, i-1) + 1: the least position >= i where sub occurs, or 0.
FindFrom(s, sub, i) ==
    LET found == {j \in i..(Len(s) - Len(sub) + 1) : OccursAt(s, sub, j)}
    IN  IF found = {} THEN 0
        ELSE CHOOSE j \in found : \A k \in found : j <= k

\* str.replace(old, new) for a non-empty old: the leftmost occurrence is
\* replaced, the scan resumes after it, and replaced text is not rescanned.
RECURSIVE ReplaceFrom(_, _, _, _)
ReplaceFrom(s, old, new, i) ==
    LET j == FindFrom(s, old, i)
    IN  IF j = 0 THEN SubSeq(s, i, Len(s))
        ELSE SubSeq(s, i, j - 1) \o new \o ReplaceFrom(s, old, new, j + Len(old))

StrReplace(s, old, new) == ReplaceFrom(s, old, new, 1)

\* The characters the regular expression class \w matches (ASCII part).
WordChars ==
    {"a","b","c","d","e","f","g","h","i","j","k","l","m",
     "n","o","p","q","r","s","t","u","v","w","x","y","z",
     "A","B","C","D","E","F","G","H","I","J","K","L","M",
     "N","O","P","Q","R","S","T","U","V","W","X","Y","Z",
     "0","1","2","3","4","5","6","7","8","9","_"}

IsWordAt(s, i) == i >= 1 /\ i <= Len(s) /\ CharAt(s, i) \in WordChars

\* \b before position i: exactly one of s[i-1], s[i] is a word character
\* (outside the string counts as a non-word character).
WordBoundary(s, i) == IsWordAt(s, i - 1) # IsWordAt(s, i)

\* Mutant: the pattern without its \b, r'dot\.'.
DotMatchAt_NoBoundary(s, i) == OccursAt(s, "dot.", i)

\* The pattern r'\bdot\.' matches at position i.
DotMatchAt(s, i) == WordBoundary(s, i) /\ OccursAt(s, "dot.", i)

\* The least position >= i where the pattern matches, or 0.
DotSearchFrom(s, i) ==
    LET found == {j \in i..(Len(s) - 3) : DotMatchAt(s, j)}
    IN  IF found = {} THEN 0
        ELSE CHOOSE j \in found : \A k \in found : j <= k

\* re.sub(r'\bdot\.', 'domain.', s): leftmost non-overlapping matches.
RECURSIVE ReSubFrom(_, _)
ReSubFrom(s, i) ==
    LET j == DotSearchFrom(s, i)
    IN  IF j = 0 THEN SubSeq(s, i, Len(s))
        ELSE SubSeq(s, i, j - 1) \o "domain." \o ReSubFrom(s, j + 4)

ReSubDot(s) == ReSubFrom(s, 1)

(***************************************************************************)
(* The literals of the two scripts.                                        *)
(***************************************************************************)
OldImport == "\"github.com/jamesainslie/dot/pkg/dot\""
NewImport == "\"github.com/jamesainslie/dot/internal/domain\""
DomainPath == "github.com/jamesainslie/dot/internal/domain"
DomainMarker == "internal/domain"
DotMarker == "pkg/dot"

(***************************************************************************)
(* update_imports.py: the transformation of one file's content.            *)
(***************************************************************************)
\* content.replace('".../pkg/dot"', '".../internal/domain"')
ReplaceImport(c) == StrReplace(c, OldImport, NewImport)

\* Mutant: the re.sub is not gated on the domain import path.
RewriteIdentifiers_Ungated(c) == ReSubDot(c)

\* if '.../internal/domain' in content: content = re.sub(r'\bdot\.', ...)
RewriteIdentifiers(c) == IF Contains(c, DomainPath) THEN ReSubDot(c) ELSE c

UpdateContent(c) == RewriteIdentifiers(ReplaceImport(c))

(***************************************************************************)
(* fix_renderer.py: the transformation of one file's content.              *)
(***************************************************************************)
\* Mutant: the insertion is not guarded by "'pkg/dot' not in content".
AddDotImport_NoGuard(c) ==
    IF Contains(c, DomainMarker)
    THEN StrReplace(c, NewImport, NewImport \o "\n\t" \o OldImport)
    ELSE c

\* Mutant: the guard's second test is inverted ("'pkg/dot' in content").
AddDotImport_Inverted(c) ==
    IF Contains(c, DomainMarker) /\ Contains(c, DotMarker)
    THEN StrReplace(c, NewImport, NewImport \o "\n\t" \o OldImport)
    ELSE c

\* if 'internal/domain' in content and 'pkg/dot' not in content: ...
AddDotImport(c) ==
    IF Contains(c, DomainMarker) /\ ~Contains(c, DotMarker)
    THEN StrReplace(c, NewImport, NewImport \o "\n\t" \o OldImport)
    ELSE c

ReplaceStatus(c) == StrReplace(c, "domain.Status", "dot.Status")

ReplacePackageInfo(c) == StrReplace(c, "domain.PackageInfo", "dot.PackageInfo")

FixContent(c) == ReplacePackageInfo(ReplaceStatus(AddDotImport(c)))

(***************************************************************************)
(* The scripts' constants.  Paths are kept relative to                     *)
(* root = Path('/Volumes/Development/dot'); a file's key on disk is the    *)
(* string str(path.relative_to(root)).                                     *)
(***************************************************************************)
files ==
    << "internal/cli/renderer/json.go",
       "internal/cli/renderer/table.go",
       "internal/cli/renderer/text.go",
       "internal/cli/renderer/yaml.go",
       "internal/cli/renderer/text_test.go",
       "internal/cli/renderer/renderer_test.go" >>

packages ==
    << "executor", "pipeline", "scanner", "planner", "manifest",
       "config", "adapters", "ignore", "cli" >>

\* internal_dir / package, relative to root, with a trailing separator.
PackageDir(package) == "internal/" \o package \o "/"

\* Mutant: package_dir.glob('*.go'), which does not descend.
GoFilesUnder_Glob(disk, package) ==
    {p \in DOMAIN disk :
        /\ OccursAt(p, PackageDir(package), 1)
        /\ OccursAt(p, ".go", Len(p) - 2)
        /\ ~Contains(SubSeq(p, Len(PackageDir(package)) + 1, Len(p)), "/")}

\* package_dir.rglob('*.go') over the files on disk.
GoFilesUnder(disk, package) ==
    {p \in DOMAIN disk :
        /\ OccursAt(p, PackageDir(package), 1)
        /\ OccursAt(p, ".go", Len(p) - 2)}

(***************************************************************************)
(* The program state.                                                      *)
(***************************************************************************)
VARIABLES
    prog,           \* the script being run: "fix_renderer" or "update_imports"
    pc,             \* the statement the script is at
    fs,             \* the files on disk: path -> content (DOMAIN: existing files)
    dirs,           \* the package directories that exist under internal/
    i,              \* position of the loop over files / over packages
    pending,        \* update_imports: files rglob has still to yield
    filepath,       \* the file being processed
    content,        \* the local variable content
    original,       \* update_imports: the local variable original
    updated_files,  \* update_imports: the list updated_files
    out,            \* the lines printed to standard output
    run,            \* number of this invocation of the script
    fs0,            \* history: the files on disk when this invocation started
    opened_r,       \* history: paths opened with mode 'r' by this invocation
    opened_w,       \* history: paths opened with mode 'w' by this invocation
    processed,      \* history: the files this invocation has finished, in order
    raised,         \* history: the path whose open, read or write raised ("": none)
    fs_first        \* history: the files on disk at the first invocation

vars == << prog, pc, fs, dirs, i, pending, filepath, content, original,
           updated_files, out, run, fs0, opened_r, opened_w, processed,
           raised, fs_first >>

\* The state of a script's process when it starts.
Start(p) ==
    /\ prog = p
    /\ pc = IF p = "fix_renderer" THEN "for_filepath" ELSE "for_package"
    /\ i = 1
    /\ pending = {}
    /\ filepath = ""
    /\ content = ""
    /\ original = ""
    /\ updated_files = << >>
    /\ out = << >>
    /\ run = 1
    /\ fs0 = fs
    /\ opened_r = {}
    /\ opened_w = {}
    /\ processed = << >>
    /\ raised = ""
    /\ fs_first = fs

(***************************************************************************)
(* Input files.                                                            *)
(***************************************************************************)
RECURSIVE Join(_)
Join(seq) == IF seq = << >> THEN "" ELSE Head(seq) \o Join(Tail(seq))

Texts(frags) == {Join(q) : q \in UNION {[1..n -> frags] : n \in 0..MaxFrags}}

FragsA ==
    { NewImport, OldImport, DomainMarker, DotMarker, "domain.Status",
      "domain.PackageInfo", ".Status", "pkg/", "dot.Status", "domain.",
      "github.com/jamesainslie/dot/internal/domain\"", "\n" }

FragsB ==
    { OldImport, "github.com/jamesainslie/dot/pkg/dot\"", NewImport,
      DomainPath, "dot.", " dot.go", "mydot.", "_dot.", "dotconfig.",
      "domain.", "\n" }

\* File contents of the tree runs of update_imports.py.
ExampleShort == "import \"pkg/dot\"\n\nfunc f() { return dot.Status{} }"
ExampleShortOut == "import \"internal/domain\"\n\nfunc f() { return domain.Status{} }"
ExampleFull == "import " \o OldImport \o "\n\nfunc f() { return dot.Status{} }"
ExampleFullOut == "import " \o NewImport \o "\n\nfunc f() { return domain.Status{} }"
TreeContents == {ExampleShort, ExampleFull}
TreeNames == {"a.go", "sub/b.go", "doc.txt"}
\* The package directories that may exist in the tree runs (the first, a
\* middle and the last of packages); the other six are missing.
TreeDirs == {"executor", "config", "cli"}

\* File contents of the list runs of fix_renderer.py.
RendererDomainOnly ==
    "import (\n\t" \o NewImport \o "\n)\n\nvar s domain.Status\nvar p domain.PackageInfo\n"
RendererBoth ==
    "import (\n\t" \o NewImport \o "\n\t" \o OldImport \o "\n)\n\nvar s dot.Status\n"
ListContents == {RendererDomainOnly, RendererBoth}

FileSet == {files[k] : k \in 1..Len(files)}
PackageSet == {packages[k] : k \in 1..Len(packages)}

\* fix_renderer.py started on a disk where any of the listed files may be
\* missing.
InitFixRenderer ==
    /\ dirs = {"cli"}
    /\ \E present \in SUBSET FileSet : fs \in [present -> ListContents]
    /\ Start("fix_renderer")

\* update_imports.py started on a tree where any of the directories TreeDirs
\* may exist, holding up to MaxFiles files between them.
InitUpdateImports ==
    /\ dirs \in SUBSET (TreeDirs \cap PackageSet)
    /\ \E present \in
            {f \in SUBSET {PackageDir(p) \o n : p \in dirs, n \in TreeNames} :
                Cardinality(f) <= MaxFiles} :
          fs \in [present -> TreeContents]
    /\ Start("update_imports")

Init == InitFixRenderer \/ InitUpdateImports

\* Either script started on a disk holding one file of arbitrary content.
InitOneFile ==
    \/ /\ dirs = {"cli"}
       /\ fs \in [{files[1]} -> Texts(FragsA)]
       /\ Start("fix_renderer")
    \/ /\ dirs = {packages[1]}
       /\ fs \in [{PackageDir(packages[1]) \o "a.go"} -> Texts(FragsB)]
       /\ Start("update_imports")

(***************************************************************************)
(* fix_renderer.py                                                         *)
(***************************************************************************)
\* Mutant: a missing file ends the loop (break) instead of being skipped.
A_NextFile_Break ==
    /\ prog = "fix_renderer" /\ pc = "for_filepath" /\ i <= Len(files)
    /\ IF files[i] \in DOMAIN fs
       THEN /\ filepath' = files[i]
            /\ pc' = "read"
            /\ i' = i
       ELSE /\ i' = Len(files) + 1
            /\ UNCHANGED << filepath, pc >>
    /\ UNCHANGED << prog, fs, dirs, pending, content, original, updated_files,
                    out, run, fs0, opened_r, opened_w, processed,
                    raised, fs_first >>

\* for filepath in files: ... if not full_path.exists(): continue
A_NextFile ==
    /\ prog = "fix_renderer" /\ pc = "for_filepath" /\ i <= Len(files)
    /\ IF files[i] \in DOMAIN fs
       THEN /\ filepath' = files[i]
            /\ pc' = "read"
            /\ i' = i
       ELSE /\ i' = i + 1
            /\ UNCHANGED << filepath, pc >>
    /\ UNCHANGED << prog, fs, dirs, pending, content, original, updated_files,
                    out, run, fs0, opened_r, opened_w, processed,
                    raised, fs_first >>

\* with open(full_path, 'r') as f: content = f.read()
A_Read ==
    /\ prog = "fix_renderer" /\ pc = "read"
    /\ content' = fs[filepath]
    /\ opened_r' = opened_r \cup {filepath}
    /\ pc' = "replace"
    /\ UNCHANGED << prog, fs, dirs, i, pending, filepath, original,
                    updated_files, out, run, fs0, opened_w, processed,
                    raised, fs_first >>

\* Mutant: the exception is caught and the loop goes on to the next file.
A_ReadFail_Swallowed ==
    /\ prog = "fix_renderer" /\ pc = "read"
    /\ opened_r' = opened_r \cup {filepath}
    /\ pc' = "for_filepath"
    /\ i' = i + 1
    /\ raised' = filepath
    /\ UNCHANGED << prog, fs, dirs, pending, filepath, content, original,
                    updated_files, out, run, fs0, opened_w, processed,
                    fs_first >>

\* open or read raises: the exception is not caught and the process ends.
A_ReadFail ==
    /\ prog = "fix_renderer" /\ pc = "read"
    /\ opened_r' = opened_r \cup {filepath}
    /\ pc' = "crashed"
    /\ raised' = filepath
    /\ UNCHANGED << prog, fs, dirs, i, pending, filepath, content, original,
                    updated_files, out, run, fs0, opened_w, processed,
                    fs_first >>

\* the conditional insertion and the two replacements
A_Replace ==
    /\ prog = "fix_renderer" /\ pc = "replace"
    /\ content' = FixContent(content)
    /\ pc' = "write"
    /\ UNCHANGED << prog, fs, dirs, i, pending, filepath, original,
                    updated_files, out, run, fs0, opened_r, opened_w, processed,
                    raised, fs_first >>

\* with open(full_path, 'w') as f: f.write(content)
A_Write ==
    /\ prog = "fix_renderer" /\ pc = "write"
    /\ fs' = [fs EXCEPT ![filepath] = content]
    /\ opened_w' = opened_w \cup {filepath}
    /\ processed' = Append(processed, filepath)
    /\ i' = i + 1
    /\ pc' = "for_filepath"
    /\ UNCHANGED << prog, dirs, pending, filepath, content, original,
                    updated_files, out, run, fs0, opened_r,
                    raised, fs_first >>

\* open(..., 'w') raises (the file is as it was) or, the file truncated by the
\* open, the write raises (the file is left empty).
A_WriteFail ==
    /\ prog = "fix_renderer" /\ pc = "write"
    /\ fs' \in {fs, [fs EXCEPT ![filepath] = ""]}
    /\ opened_w' = opened_w \cup {filepath}
    /\ pc' = "crashed"
    /\ raised' = filepath
    /\ UNCHANGED << prog, dirs, i, pending, filepath, content, original,
                    updated_files, out, run, fs0, opened_r, processed,
                    fs_first >>

\* print("Fixed renderer files")
A_Print ==
    /\ prog = "fix_renderer" /\ pc = "for_filepath" /\ i > Len(files)
    /\ out' = Append(out, "Fixed renderer files")
    /\ pc' = "done"
    /\ UNCHANGED << prog, fs, dirs, i, pending, filepath, content, original,
                    updated_files, run, fs0, opened_r, opened_w, processed,
                    raised, fs_first >>

(***************************************************************************)
(* update_imports.py                                                       *)
(***************************************************************************)
\* for package in packages: ... if not package_dir.exists(): continue
B_NextPackage ==
    /\ prog = "update_imports" /\ pc = "for_package" /\ i <= Len(packages)
    /\ IF packages[i] \in dirs
       THEN /\ pending' = GoFilesUnder(fs, packages[i])
            /\ pc' = "for_gofile"
            /\ i' = i
       ELSE /\ i' = i + 1
            /\ UNCHANGED << pending, pc >>
    /\ UNCHANGED << prog, fs, dirs, filepath, content, original, updated_files,
                    out, run, fs0, opened_r, opened_w, processed,
                    raised, fs_first >>

\* for gofile in package_dir.rglob('*.go'): the next file, in rglob's order
B_NextFile ==
    /\ prog = "update_imports" /\ pc = "for_gofile"
    /\ \E gofile \in pending :
          /\ filepath' = gofile
          /\ pending' = pending \ {gofile}
    /\ pc' = "read"
    /\ UNCHANGED << prog, fs, dirs, i, content, original, updated_files, out,
                    run, fs0, opened_r, opened_w, processed,
                    raised, fs_first >>

\* rglob is exhausted: on to the next package
B_PackageDone ==
    /\ prog = "update_imports" /\ pc = "for_gofile" /\ pending = {}
    /\ i' = i + 1
    /\ pc' = "for_package"
    /\ UNCHANGED << prog, fs, dirs, pending, filepath, content, original,
                    updated_files, out, run, fs0, opened_r, opened_w, processed,
                    raised, fs_first >>

\* with open(filepath, 'r') as f: content = f.read(); original = content
B_Read ==
    /\ prog = "update_imports" /\ pc = "read"
    /\ content' = fs[filepath]
    /\ original' = fs[filepath]
    /\ opened_r' = opened_r \cup {filepath}
    /\ pc' = "replace"
    /\ UNCHANGED << prog, fs, dirs, i, pending, filepath, updated_files, out,
                    run, fs0, opened_w, processed,
                    raised, fs_first >>

B_ReadFail ==
    /\ prog = "update_imports" /\ pc = "read"
    /\ opened_r' = opened_r \cup {filepath}
    /\ pc' = "crashed"
    /\ raised' = filepath
    /\ UNCHANGED << prog, fs, dirs, i, pending, filepath, content, original,
                    updated_files, out, run, fs0, opened_w, processed,
                    fs_first >>

\* the import replacement and the gated re.sub
B_Replace ==
    /\ prog = "update_imports" /\ pc = "replace"
    /\ content' = UpdateContent(content)
    /\ pc' = "compare"
    /\ UNCHANGED << prog, fs, dirs, i, pending, filepath, original,
                    updated_files, out, run, fs0, opened_r, opened_w, processed,
                    raised, fs_first >>

\* if content != original: write, return True; main appends the path
B_Write ==
    /\ prog = "update_imports" /\ pc = "compare" /\ content # original
    /\ fs' = [fs EXCEPT ![filepath] = content]
    /\ opened_w' = opened_w \cup {filepath}
    /\ updated_files' = Append(updated_files, filepath)
    /\ processed' = Append(processed, filepath)
    /\ pc' = "for_gofile"
    /\ UNCHANGED << prog, dirs, i, pending, filepath, content, original, out,
                    run, fs0, opened_r,
                    raised, fs_first >>

B_WriteFail ==
    /\ prog = "update_imports" /\ pc = "compare" /\ content # original
    /\ fs' \in {fs, [fs EXCEPT ![filepath] = ""]}
    /\ opened_w' = opened_w \cup {filepath}
    /\ pc' = "crashed"
    /\ raised' = filepath
    /\ UNCHANGED << prog, dirs, i, pending, filepath, content, original,
                    updated_files, out, run, fs0, opened_r, processed,
                    fs_first >>

\* Mutant: main appends the path whatever update_imports_in_file returned.
B_Unchanged_Appends ==
    /\ prog = "update_imports" /\ pc = "compare" /\ content = original
    /\ updated_files' = Append(updated_files, filepath)
    /\ processed' = Append(processed, filepath)
    /\ pc' = "for_gofile"
    /\ UNCHANGED << prog, fs, dirs, i, pending, filepath, content, original,
                    out, run, fs0, opened_r, opened_w, raised, fs_first >>

\* content == original: return False; nothing is written or appended
B_Unchanged ==
    /\ prog = "update_imports" /\ pc = "compare" /\ content = original
    /\ processed' = Append(processed, filepath)
    /\ pc' = "for_gofile"
    /\ UNCHANGED << prog, fs, dirs, i, pending, filepath, content, original,
                    updated_files, out, run, fs0, opened_r, opened_w,
                    raised, fs_first >>

\* print(f"Updated {len(updated_files)} files:"), then one line per file
B_Print ==
    /\ prog = "update_imports" /\ pc = "for_package" /\ i > Len(packages)
    /\ out' = << "Updated " \o ToString(Len(updated_files)) \o " files:" >>
              \o [k \in 1..Len(updated_files) |-> "  - " \o updated_files[k]]
    /\ pc' = "done"
    /\ UNCHANGED << prog, fs, dirs, i, pending, filepath, content, original,
                    updated_files, run, fs0, opened_r, opened_w, processed,
                    raised, fs_first >>

\* The script is invoked again on the disk the previous invocation left.
Rerun ==
    /\ pc = "done" /\ run < MaxRuns
    /\ run' = run + 1
    /\ pc' = IF prog = "fix_renderer" THEN "for_filepath" ELSE "for_package"
    /\ i' = 1
    /\ pending' = {}
    /\ filepath' = ""
    /\ content' = ""
    /\ original' = ""
    /\ updated_files' = << >>
    /\ out' = << >>
    /\ fs0' = fs
    /\ opened_r' = {}
    /\ opened_w' = {}
    /\ processed' = << >>
    /\ UNCHANGED << prog, fs, dirs,
                    raised, fs_first >>

Next ==
    \/ A_NextFile \/ A_Read \/ A_ReadFail \/ A_Replace \/ A_Write
    \/ A_WriteFail \/ A_Print
    \/ B_NextPackage \/ B_NextFile \/ B_PackageDone \/ B_Read \/ B_ReadFail
    \/ B_Replace \/ B_Write \/ B_WriteFail \/ B_Unchanged \/ B_Print

NextAgain == Next \/ Rerun

\* One invocation of either script on a tree of files.
Spec == Init /\ [][Next]_vars

\* Repeated invocations of either script on one file of arbitrary content.
SpecAgain == InitOneFile /\ [][NextAgain]_vars

(***************************************************************************)
(* Vocabulary of the properties.                                           *)
(***************************************************************************)
Range(seq) == {seq[k] : k \in 1..Len(seq)}

\* The number of (possibly overlapping) occurrences of sub in s.
Count(s, sub) == Cardinality({k \in 1..Len(s) : OccursAt(s, sub, k)})

\* Positions of a `dot.` that directly follows an identifier character.
GluedDots(s) == {k \in 1..Len(s) : OccursAt(s, "dot.", k) /\ IsWordAt(s, k - 1)}

\* Positions of a word-bounded `dot.`.
BoundedDots(s) == {k \in 1..Len(s) : OccursAt(s, "dot.", k) /\ ~IsWordAt(s, k - 1)}

\* Positions of a `dot` that an identifier character follows (dotconfig).
LongerIdents(s) == {k \in 1..Len(s) : OccursAt(s, "dot", k) /\ IsWordAt(s, k + 3)}

\* p is a .go file below a package directory that exists.
Scanned(p) ==
    /\ OccursAt(p, ".go", Len(p) - 2)
    /\ \E d \in dirs : OccursAt(p, "internal/" \o d \o "/", 1)

\* The content a complete processing of the file by the running script gives.
Transformed(c) == IF prog = "fix_renderer" THEN FixContent(c) ELSE UpdateContent(c)

(***************************************************************************)
(* Renamer B, one file, repeated invocations (SpecAgain).                  *)
(***************************************************************************)
\* C1: Renamer B is idempotent on every content: a second invocation leaves
\* the disk as the first left it, writes nothing and reports nothing.
C1_IdempotentB ==
    (prog = "update_imports" /\ run >= 2 /\ raised = "") =>
        /\ fs = fs0
        /\ opened_w = {}
        /\ updated_files = << >>

\* C3: a `dot.` that directly follows an identifier character, and a longer
\* identifier that starts with `dot`, come out of update_imports_in_file
\* unchanged, at the place the rewritten text before them ends, whether or
\* not the rewrite of identifiers is enabled.
C3_GluedDotKept ==
    (prog = "update_imports" /\ pc = "compare") =>
        LET gate == Contains(StrReplace(original, OldImport, NewImport), DomainPath)
            Out(pre) == IF gate THEN ReSubDot(ReplaceImport(pre)) ELSE ReplaceImport(pre)
        IN  /\ \A k \in GluedDots(original) :
                  LET before == Out(SubSeq(original, 1, k - 1))
                  IN  /\ OccursAt(content, before \o "dot.", 1)
                      /\ CharAt(before, Len(before)) = CharAt(original, k - 1)
            /\ \A k \in LongerIdents(original) :
                  OccursAt(content,
                           Out(SubSeq(original, 1, k - 1)) \o SubSeq(original, k, k + 3), 1)
            /\ Cardinality(GluedDots(content)) = Cardinality(GluedDots(original))
            /\ Count(content, "dotconfig.") = Count(original, "dotconfig.")

C3_Witness ==
    /\ prog = "update_imports" /\ pc = "compare"
    /\ Contains(content, DomainPath)
    /\ content # original
    /\ Contains(original, "mydot.")
    /\ Contains(original, "dotconfig.")

\* C7: in a file that contains the internal/domain import path, the
\* filename ` dot.go` is left as it is.
C7_FilenameKept ==
    (prog = "update_imports" /\ pc = "compare" /\ Contains(original, DomainPath)) =>
        Count(content, " dot.go") = Count(original, " dot.go")

BothMarkers(c) == Contains(c, DomainMarker) /\ Contains(c, DotMarker)

\* C2 as stated: a second invocation leaves every file as the first left it,
\* and a file that holds both markers keeps the number of occurrences of
\* each marker.
C2_Original ==
    (prog = "fix_renderer" /\ raised = "") =>
        /\ run >= 2 => fs = fs0
        /\ pc = "done" =>
              \A p \in DOMAIN fs0 :
                  BothMarkers(fs0[p]) =>
                      /\ Count(fs[p], DomainMarker) = Count(fs0[p], DomainMarker)
                      /\ Count(fs[p], DotMarker) = Count(fs0[p], DotMarker)

\* C2 as amended: a second invocation leaves every file as the first left
\* it, and a file that holds both markers keeps the number of occurrences of
\* each quoted import path (no import line is inserted).
C2_Amended ==
    (prog = "fix_renderer" /\ raised = "") =>
        /\ run >= 2 => fs = fs0
        /\ pc = "done" =>
              \A p \in DOMAIN fs0 :
                  BothMarkers(fs0[p]) =>
                      /\ Count(fs[p], NewImport) = Count(fs0[p], NewImport)
                      /\ Count(fs[p], OldImport) = Count(fs0[p], OldImport)

C2_Witness ==
    /\ prog = "fix_renderer" /\ run = 2 /\ pc = "done" /\ raised = ""
    /\ \E p \in DOMAIN fs :
          /\ ~Contains(fs_first[p], DotMarker)
          /\ Contains(fs_first[p], NewImport)
          /\ Contains(fs0[p], NewImport \o "\n\t" \o OldImport)
          /\ BothMarkers(fs0[p])
          /\ fs[p] = fs0[p]

\* C9 as stated: a processed file that held the 'internal/domain' marker and
\* not the 'pkg/dot' marker is written back with the pkg/dot import line
\* directly after the internal/domain import, so it holds 'pkg/dot'.
C9_Original ==
    prog = "fix_renderer" =>
        \A p \in Range(processed) :
            (Contains(fs0[p], DomainMarker) /\ ~Contains(fs0[p], DotMarker)) =>
                /\ Contains(fs[p], DotMarker)
                /\ Contains(fs[p], NewImport \o "\n\t" \o OldImport)

\* C9 as amended: a processed file that held the quoted import path
\* "github.com/jamesainslie/dot/internal/domain" and not the 'pkg/dot'
\* marker is written back with the pkg/dot import line directly after the
\* first occurrence of that quoted path, so it holds 'pkg/dot'; a file that
\* held the 'internal/domain' marker without that quoted path gets no
\* import line.
C9_Amended ==
    prog = "fix_renderer" =>
        \A p \in Range(processed) :
            ~Contains(fs0[p], DotMarker) =>
                IF Contains(fs0[p], NewImport)
                THEN /\ Contains(fs[p], DotMarker)
                     /\ OccursAt(fs[p], NewImport \o "\n\t" \o OldImport,
                                 FindFrom(fs[p], NewImport, 1))
                ELSE Count(fs[p], OldImport) = 0

C9_Witness ==
    /\ prog = "fix_renderer"
    /\ \E p \in Range(processed) :
          /\ ~Contains(fs0[p], DotMarker)
          /\ Contains(fs0[p], NewImport)
          /\ Contains(fs0[p], "domain.Status")
          /\ Contains(fs[p], NewImport \o "\n\t" \o OldImport)

(***************************************************************************)
(* Either script on a tree of files (Spec).                                *)
(***************************************************************************)
\* C4 as stated: a scanned file holding
\*   import "pkg/dot"\n\nfunc f() { return dot.Status{} }
\* ends as
\*   import "internal/domain"\n\nfunc f() { return domain.Status{} }
\* and its path is in the reported list of changed files.
C4_Original ==
    (prog = "update_imports" /\ pc = "done") =>
        \A p \in DOMAIN fs0 :
            (Scanned(p) /\ fs0[p] = ExampleShort) =>
                /\ fs[p] = ExampleShortOut
                /\ p \in Range(updated_files)
                /\ ("  - " \o p) \in Range(out)

\* C4 as amended: the example with the import paths written out in full, a
\* scanned file holding
\*   import "github.com/jamesainslie/dot/pkg/dot"\n\nfunc f() { return dot.Status{} }
\* ends as
\*   import "github.com/jamesainslie/dot/internal/domain"\n\nfunc f() { return domain.Status{} }
\* and its path is in the reported list of changed files.
C4_Amended ==
    (prog = "update_imports" /\ pc = "done") =>
        \A p \in DOMAIN fs0 :
            (Scanned(p) /\ fs0[p] = ExampleFull) =>
                /\ fs[p] = ExampleFullOut
                /\ p \in Range(updated_files)
                /\ ("  - " \o p) \in Range(out)

C4_Witness ==
    /\ prog = "update_imports" /\ pc = "done"
    /\ \E p \in DOMAIN fs0 :
          /\ Scanned(p)
          /\ Contains(p, "/sub/")
          /\ fs0[p] = ExampleFull
          /\ fs[p] = ExampleFullOut

\* C5: Renamer B opens a visited file for writing, and lists it, exactly
\* when its transformed content differs from the content read; a file the
\* transformation leaves alone is never written, changed or listed; and the
\* printed count is the number of files written.
C5_WriteIffChanged ==
    prog = "update_imports" =>
        /\ \A p \in DOMAIN fs0 :
              LET changed == UpdateContent(fs0[p]) # fs0[p]
              IN  /\ p \in Range(processed) =>
                        /\ p \in opened_w <=> changed
                        /\ p \in Range(updated_files) <=> p \in opened_w
                  /\ ~changed =>
                        /\ p \notin opened_w
                        /\ p \notin Range(updated_files)
                        /\ fs[p] = fs0[p]
        /\ Len(updated_files) = Cardinality(Range(updated_files))
        /\ pc = "done" =>
              /\ Len(updated_files) = Cardinality(opened_w)
              /\ out[1] = "Updated " \o ToString(Cardinality(opened_w)) \o " files:"
              /\ Len(out) = 1 + Cardinality(opened_w)

C5_Witness ==
    /\ prog = "update_imports" /\ pc = "done"
    /\ \E p, q \in Range(processed) :
          /\ p \in opened_w /\ fs[p] # fs0[p]
          /\ q \notin opened_w

\* C6: a missing listed file, or a missing package directory, is skipped:
\* it raises nothing, is not created and is not opened, and at the end every listed file that exists holds the content its own
\* transformation gives, as does every .go file below an existing package
\* directory.
C6_SkipOnMissing ==
    /\ DOMAIN fs = DOMAIN fs0
    /\ raised # "" => raised \in DOMAIN fs0
    /\ prog = "fix_renderer" =>
          /\ \A p \in FileSet \ DOMAIN fs0 : p \notin opened_r \cup opened_w
          /\ pc = "done" =>
                \A p \in FileSet \cap DOMAIN fs0 :
                    /\ p \in opened_w
                    /\ fs[p] = FixContent(fs0[p])
    /\ prog = "update_imports" =>
          /\ opened_r \cup opened_w \subseteq {p \in DOMAIN fs0 : Scanned(p)}
          /\ pc = "done" =>
                \A p \in DOMAIN fs0 :
                    Scanned(p) => p \in opened_r /\ fs[p] = UpdateContent(fs0[p])

C6_Witness ==
    /\ prog = "fix_renderer" /\ pc = "done"
    /\ \E j, k, l \in 1..Len(files) :
          /\ j < k /\ k < l
          /\ files[j] \in DOMAIN fs0
          /\ files[k] \notin DOMAIN fs
          /\ files[l] \in DOMAIN fs0
          /\ fs[files[j]] # fs0[files[j]]
          /\ fs[files[l]] # fs0[files[l]]

\* C10: when a read or a write raises, the script stops at that file: it
\* takes no further step and prints nothing; every file processed before
\* holds its transformed content; every other file but the failing one holds
\* its original content and was never opened.
C10_PartialFailure ==
    /\ [](/\ pc = "crashed" <=> raised # ""
          /\ raised # "" =>
                /\ filepath = raised
                /\ out = << >>
                /\ raised \notin Range(processed)
                /\ \A p \in Range(processed) : fs[p] = Transformed(fs0[p])
                /\ \A p \in DOMAIN fs0 \ (Range(processed) \cup {raised}) :
                      /\ fs[p] = fs0[p]
                      /\ p \notin opened_r \cup opened_w)
    /\ [][raised = ""]_vars

C10_Witness ==
    /\ raised # ""
    /\ processed # << >>
    /\ fs[processed[1]] # fs0[processed[1]]
    /\ raised \in opened_w
    /\ \E p \in DOMAIN fs0 \ (Range(processed) \cup {raised}) :
          p \in FileSet \/ Scanned(p)
====
